---- MODULE Spec2Model ----
(***************************************************************************)
(* create-intelligent-textbook: the CLI entry point, the pipeline          *)
(* orchestrator (runPipeline), the generation service fan-out              *)
(* (generateParallel) and the two structured extractors                    *)
(* (parseConceptTable, parseChapterOutlines).                              *)
(*                                                                         *)
(* Text is modelled as a sequence of one-character strings, so that        *)
(* parseInt, Number, trim and split are computed rather than assumed.      *)
(* A JavaScript number is <<n>> for the integer n and <<>> for NaN; an     *)
(* optional value (a slot that may be undefined) is <<>> or <<v>>.         *)
(***************************************************************************)
EXTENDS Integers, Sequences, FiniteSets, TLC

\* ------------------------------------------------------------------------
\* Bounds of the model
\* ------------------------------------------------------------------------
MaxChapters == 2
MaxSims == 1
MaxPrompts == 3
MaxLines == 4
MaxChapterNum == 3
MaxRows == 3
MaxTokens == 2

\* ------------------------------------------------------------------------
\* JavaScript values
\* ------------------------------------------------------------------------
NaN == <<>>
Num(n) == <<n>>
IsNaN(x) == x = <<>>
Undefined == <<>>
Some(v) == <<v>>
IsDefined(o) == o # <<>>

Range(s) == {s[k] : k \in 1..Len(s)}

Digits == <<"0", "1", "2", "3", "4", "5", "6", "7", "8", "9">>
IsDigit(c) == \E d \in 1..10 : Digits[d] = c
DigitVal(c) == (CHOOSE d \in 1..10 : Digits[d] = c) - 1
IsSpace(c) == c = " "

RECURSIVE TrimStart(_)
TrimStart(s) == IF s # <<>> /\ IsSpace(Head(s)) THEN TrimStart(Tail(s)) ELSE s

RECURSIVE TrimEnd(_)
TrimEnd(s) ==
  IF s # <<>> /\ IsSpace(s[Len(s)]) THEN TrimEnd(SubSeq(s, 1, Len(s) - 1)) ELSE s

Trim(s) == TrimEnd(TrimStart(s))

\* String.prototype.split(sep) for a one-character separator: always at
\* least one piece, empty pieces kept.
RECURSIVE SplitFrom(_, _, _)
SplitFrom(s, sep, cur) ==
  IF s = <<>> THEN <<cur>>
  ELSE IF Head(s) = sep THEN <<cur>> \o SplitFrom(Tail(s), sep, <<>>)
  ELSE SplitFrom(Tail(s), sep, Append(cur, Head(s)))

Split(s, sep) == SplitFrom(s, sep, <<>>)

RECURSIVE DigitPrefix(_)
DigitPrefix(s) ==
  IF s # <<>> /\ IsDigit(Head(s)) THEN <<Head(s)>> \o DigitPrefix(Tail(s)) ELSE <<>>

RECURSIVE DecimalValue(_, _)
DecimalValue(s, acc) ==
  IF s = <<>> THEN acc ELSE DecimalValue(Tail(s), 10 * acc + DigitVal(Head(s)))

Signed(s) == s # <<>> /\ Head(s) \in {"-", "+"}
Unsigned(s) == IF Signed(s) THEN Tail(s) ELSE s
SignOf(s) == IF s # <<>> /\ Head(s) = "-" THEN -1 ELSE 1

\* parseInt(s, 10): leading white space skipped, optional sign, then the
\* longest prefix of decimal digits; NaN when that prefix is empty.
parseInt(s) ==
  LET t == TrimStart(s)
      d == DigitPrefix(Unsigned(t))
  IN IF d = <<>> THEN NaN ELSE Num(SignOf(t) * DecimalValue(d, 0))

\* Number(s) on text over the alphabet of digits, signs, letters and
\* blanks: white space trimmed, the empty text is 0, an optionally signed
\* all-digit text is its value, anything else is NaN.
Number(s) ==
  LET t == Trim(s)
      u == Unsigned(t)
  IN IF t = <<>> THEN Num(0)
     ELSE IF u # <<>> /\ DigitPrefix(u) = u THEN Num(SignOf(t) * DecimalValue(u, 0))
     ELSE NaN

\* String(n) for 0 <= n <= 99
ToText(n) == IF n < 10 THEN <<Digits[n + 1]>> ELSE <<Digits[(n \div 10) + 1], Digits[(n % 10) + 1]>>


\* String(n) for any integer of at most two digits
NumberText(n) == IF n < 0 THEN <<"-">> \o ToText(-n) ELSE ToText(n)

\* ------------------------------------------------------------------------
\* Chapter-outline extractor (chapter-structure step)
\*
\* The generated text is a sequence of lines.  A line is a delimiter
\* (three or more dashes), a "## Chapter N: Title" heading, a
\* "**Summary:**" field, a "**Concept IDs:**" field or any other text.
\* A heading carries a non-empty title and a field a non-blank value, as
\* the regular expressions of the source require of a match.
\* ------------------------------------------------------------------------
DelimLine == [kind |-> "delim", num |-> 0, text |-> <<>>]
HeaderLine(n, title) == [kind |-> "header", num |-> n, text |-> title]
SummaryLine(t) == [kind |-> "summary", num |-> 0, text |-> t]
ConceptIdsLine(t) == [kind |-> "concepts", num |-> 0, text |-> t]
OtherLine == [kind |-> "other", num |-> 0, text |-> <<>>]

\* raw.split(/---+/g).filter(b => b.trim())
RECURSIVE SplitBlocksFrom(_, _)
SplitBlocksFrom(raw, cur) ==
  IF raw = <<>> THEN <<cur>>
  ELSE IF Head(raw).kind = "delim" THEN <<cur>> \o SplitBlocksFrom(Tail(raw), <<>>)
  ELSE SplitBlocksFrom(Tail(raw), Append(cur, Head(raw)))

SplitBlocks(raw) == SelectSeq(SplitBlocksFrom(raw, <<>>), LAMBDA b : b # <<>>)

\* block.match(re): the first line of the block of the given kind, if any
FirstOfKind(block, kind) ==
  LET hits == SelectSeq(block, LAMBDA l : l.kind = kind)
  IN IF hits = <<>> THEN Undefined ELSE Some(Head(hits))

\* Number(piece.trim().split('.')[0])
LeadingNumber(piece) == Number(Split(Trim(piece), ".")[1])

\* Variant: the test n > 0 left out
RECURSIVE PositiveIdsUnfiltered(_)
PositiveIdsUnfiltered(parts) ==
  IF parts = <<>> THEN <<>>
  ELSE LET n == LeadingNumber(Head(parts))
       IN (IF ~IsNaN(n) THEN <<n[1]>> ELSE <<>>) \o PositiveIdsUnfiltered(Tail(parts))

RECURSIVE PositiveIds(_)
PositiveIds(parts) ==
  IF parts = <<>> THEN <<>>
  ELSE LET n == LeadingNumber(Head(parts))
       IN (IF ~IsNaN(n) /\ n[1] > 0 THEN <<n[1]>> ELSE <<>>) \o PositiveIds(Tail(parts))

RECURSIVE MapIds(_)
MapIds(entries) ==
  IF entries = <<>> THEN <<>>
  ELSE LET n == Number(Split(Head(entries), ".")[1])
       IN (IF ~IsNaN(n) THEN <<n[1]>> ELSE <<>>) \o MapIds(Tail(entries))

HasKey(conceptMap, n) == n \in DOMAIN conceptMap

\* Variant: the map entry appended whatever the field gave
ParseBlockAlwaysMap(block, conceptMap) ==
  LET headerMatch == FirstOfKind(block, "header")
      number == headerMatch[1].num
      summaryMatch == FirstOfKind(block, "summary")
      conceptsMatch == FirstOfKind(block, "concepts")
      listed == IF IsDefined(conceptsMatch)
                THEN PositiveIds(Split(conceptsMatch[1].text, ","))
                ELSE <<>>
      concepts == IF HasKey(conceptMap, number)
                  THEN listed \o MapIds(conceptMap[number])
                  ELSE listed
  IN [number |-> number,
      title |-> Trim(headerMatch[1].text),
      summary |-> IF IsDefined(summaryMatch) THEN Trim(summaryMatch[1].text) ELSE <<>>,
      concepts |-> concepts]

ParseBlock(block, conceptMap) ==
  LET headerMatch == FirstOfKind(block, "header")
      number == headerMatch[1].num
      summaryMatch == FirstOfKind(block, "summary")
      conceptsMatch == FirstOfKind(block, "concepts")
      listed == IF IsDefined(conceptsMatch)
                THEN PositiveIds(Split(conceptsMatch[1].text, ","))
                ELSE <<>>
      concepts == IF listed = <<>> /\ HasKey(conceptMap, number)
                  THEN MapIds(conceptMap[number])
                  ELSE listed
  IN [number |-> number,
      title |-> Trim(headerMatch[1].text),
      summary |-> IF IsDefined(summaryMatch) THEN Trim(summaryMatch[1].text) ELSE <<>>,
      concepts |-> concepts]

RECURSIVE ParseBlocks(_, _)
ParseBlocks(blocks, conceptMap) ==
  IF blocks = <<>> THEN <<>>
  ELSE (IF IsDefined(FirstOfKind(Head(blocks), "header"))
        THEN <<ParseBlock(Head(blocks), conceptMap)>>
        ELSE <<>>) \o ParseBlocks(Tail(blocks), conceptMap)

ChapterTitle(n) == <<"C", "h", "a", "p", "t", "e", "r", " ">> \o NumberText(n)
FillerSummary(n, title) ==
  ChapterTitle(n) \o <<" ", "c", "o", "v", "e", "r", "s", " ">> \o title \o <<".">>

\* Variant: the fallback title list ignored
DefaultOutlineUntitled(n, courseTopics, conceptMap) ==
  [number |-> n,
   title |-> ChapterTitle(n),
   summary |-> FillerSummary(n, ChapterTitle(n)),
   concepts |-> IF HasKey(conceptMap, n) THEN MapIds(conceptMap[n]) ELSE <<>>]

DefaultOutline(n, courseTopics, conceptMap) ==
  LET title == IF n <= Len(courseTopics) THEN courseTopics[n] ELSE ChapterTitle(n)
  IN [number |-> n,
      title |-> title,
      summary |-> FillerSummary(n, title),
      concepts |-> IF HasKey(conceptMap, n) THEN MapIds(conceptMap[n]) ELSE <<>>]

\* Variant: the gap-filling loop stops one chapter short (n < chapterCount)
RECURSIVE FillGapsShort(_, _, _, _, _)
FillGapsShort(n, chapterCount, found, courseTopics, conceptMap) ==
  IF IsNaN(chapterCount) \/ n >= chapterCount[1] THEN <<>>
  ELSE (IF n \notin found THEN <<DefaultOutline(n, courseTopics, conceptMap)>> ELSE <<>>)
       \o FillGapsShort(n + 1, chapterCount, found, courseTopics, conceptMap)

\* for (let n = 1; n <= chapterCount; n++) if (!found.has(n)) outlines.push(...)
RECURSIVE FillGaps(_, _, _, _, _)
FillGaps(n, chapterCount, found, courseTopics, conceptMap) ==
  IF IsNaN(chapterCount) \/ n > chapterCount[1] THEN <<>>
  ELSE (IF n \notin found THEN <<DefaultOutline(n, courseTopics, conceptMap)>> ELSE <<>>)
       \o FillGaps(n + 1, chapterCount, found, courseTopics, conceptMap)

\* Variant: a sort that puts a record before the records of the same number
RECURSIVE InsertByNumberUnstable(_, _)
InsertByNumberUnstable(o, sorted) ==
  IF sorted = <<>> THEN <<o>>
  ELSE IF Head(sorted).number < o.number
       THEN <<Head(sorted)>> \o InsertByNumberUnstable(o, Tail(sorted))
  ELSE <<o>> \o sorted

\* outlines.sort((a, b) => a.number - b.number): Array.prototype.sort is
\* stable, so each record goes after the records whose number is not larger.
RECURSIVE InsertByNumber(_, _)
InsertByNumber(o, sorted) ==
  IF sorted = <<>> THEN <<o>>
  ELSE IF Head(sorted).number <= o.number THEN <<Head(sorted)>> \o InsertByNumber(o, Tail(sorted))
  ELSE <<o>> \o sorted

RECURSIVE SortByNumber(_)
SortByNumber(outlines) ==
  IF outlines = <<>> THEN <<>>
  ELSE InsertByNumber(outlines[Len(outlines)], SortByNumber(SubSeq(outlines, 1, Len(outlines) - 1)))

\* Variant: the records of the text only, no record added for a missing number
parseChapterOutlinesParsedOnly(raw, chapterCount, courseTopics, conceptMap) ==
  SortByNumber(ParseBlocks(SplitBlocks(raw), conceptMap))

\* const blocks = raw.split(/---+/) ... return outlines.sort(...)
parseChapterOutlines(raw, chapterCount, courseTopics, conceptMap) ==
  LET parsed == ParseBlocks(SplitBlocks(raw), conceptMap)
      found == {parsed[k].number : k \in 1..Len(parsed)}
  IN SortByNumber(parsed \o FillGaps(1, chapterCount, found, courseTopics, conceptMap))


\* ------------------------------------------------------------------------
\* Concept-table extractor (learning-graph step)
\*
\* The generated text is a sequence of lines (raw.split('\n')), each a
\* text.  Numeric cells are written without '.', exponent or radix prefix.
\* ------------------------------------------------------------------------
Upper == <<"A", "B", "C", "D", "E", "F", "G", "H", "I", "J", "K", "L", "M",
           "N", "O", "P", "Q", "R", "S", "T", "U", "V", "W", "X", "Y", "Z">>
Lower == <<"a", "b", "c", "d", "e", "f", "g", "h", "i", "j", "k", "l", "m",
           "n", "o", "p", "q", "r", "s", "t", "u", "v", "w", "x", "y", "z">>
LowerChar(c) == IF \E k \in 1..26 : Upper[k] = c
                THEN Lower[CHOOSE k \in 1..26 : Upper[k] = c]
                ELSE c
toLowerCase(s) == [k \in 1..Len(s) |-> LowerChar(s[k])]

includes(s, sub) ==
  \E k \in 0..(Len(s) - Len(sub)) : SubSeq(s, k + 1, k + Len(sub)) = sub

\* Variant: 'adv' looked for before 'found'
normalizeTaxonomyAdvFirst(raw) ==
  LET lower == toLowerCase(raw)
  IN IF includes(lower, <<"a", "d", "v">>) THEN "Advanced"
     ELSE IF includes(lower, <<"f", "o", "u", "n", "d">>) THEN "Foundation"
     ELSE "Core"

normalizeTaxonomy(raw) ==
  LET lower == toLowerCase(raw)
  IN IF includes(lower, <<"f", "o", "u", "n", "d">>) THEN "Foundation"
     ELSE IF includes(lower, <<"a", "d", "v">>) THEN "Advanced"
     ELSE "Core"

BloomText(label) ==
  CASE label = "Remember" -> <<"R", "e", "m", "e", "m", "b", "e", "r">>
    [] label = "Understand" -> <<"U", "n", "d", "e", "r", "s", "t", "a", "n", "d">>
    [] label = "Apply" -> <<"A", "p", "p", "l", "y">>
    [] label = "Analyze" -> <<"A", "n", "a", "l", "y", "z", "e">>
    [] label = "Evaluate" -> <<"E", "v", "a", "l", "u", "a", "t", "e">>
    [] label = "Create" -> <<"C", "r", "e", "a", "t", "e">>

\* Variant: 'apply' looked for before 'remember' and 'understand'
normalizeBloomApplyFirst(raw) ==
  LET lower == toLowerCase(raw)
  IN IF includes(lower, <<"a", "p", "p", "l", "y">>) THEN BloomText("Apply")
     ELSE IF includes(lower, <<"r", "e", "m", "e", "m", "b", "e", "r">>) THEN BloomText("Remember")
     ELSE IF includes(lower, <<"u", "n", "d", "e", "r", "s", "t", "a", "n", "d">>) THEN BloomText("Understand")
     ELSE IF includes(lower, <<"a", "n", "a", "l", "y", "z">>) THEN BloomText("Analyze")
     ELSE IF includes(lower, <<"e", "v", "a", "l", "u", "a", "t">>) THEN BloomText("Evaluate")
     ELSE IF includes(lower, <<"c", "r", "e", "a", "t">>) THEN BloomText("Create")
     ELSE Trim(raw)

normalizeBloom(raw) ==
  LET lower == toLowerCase(raw)
  IN IF includes(lower, <<"r", "e", "m", "e", "m", "b", "e", "r">>) THEN BloomText("Remember")
     ELSE IF includes(lower, <<"u", "n", "d", "e", "r", "s", "t", "a", "n", "d">>) THEN BloomText("Understand")
     ELSE IF includes(lower, <<"a", "p", "p", "l", "y">>) THEN BloomText("Apply")
     ELSE IF includes(lower, <<"a", "n", "a", "l", "y", "z">>) THEN BloomText("Analyze")
     ELSE IF includes(lower, <<"e", "v", "a", "l", "u", "a", "t">>) THEN BloomText("Evaluate")
     ELSE IF includes(lower, <<"c", "r", "e", "a", "t">>) THEN BloomText("Create")
     ELSE Trim(raw)

\* line.split('|').map(c => c.trim()).filter(Boolean)
Cells(line) ==
  LET pieces == Split(line, "|")
      trimmed == [k \in 1..Len(pieces) |-> Trim(pieces[k])]
  IN SelectSeq(trimmed, LAMBDA c : c # <<>>)

RECURSIVE Dependencies(_, _)
Dependencies(parts, id) ==
  IF parts = <<>> THEN <<>>
  ELSE LET n == Number(Trim(Head(parts)))
       IN (IF ~IsNaN(n) /\ n[1] > 0 /\ n[1] # id THEN <<n[1]>> ELSE <<>>)
          \o Dependencies(Tail(parts), id)

\* Number(cells[2]) || 1
ChapterOf(cell) ==
  LET n == Number(cell) IN IF IsNaN(n) \/ n[1] = 0 THEN 1 ELSE n[1]

IsDataRow(cells) == Len(cells) >= 6 /\ ~IsNaN(Number(cells[1]))

\* Variant: the identifier read from the chapter column
ConceptOfRowShifted(cells) ==
  LET id == ChapterOf(cells[3])
  IN [id |-> id,
      name |-> cells[2],
      chapter |-> ChapterOf(cells[3]),
      dependencies |-> Dependencies(Split(cells[4], ","), id),
      taxonomy |-> normalizeTaxonomy(cells[5]),
      bloomLevel |-> normalizeBloom(cells[6])]

ConceptOfRow(cells) ==
  LET id == Number(cells[1])[1]
  IN [id |-> id,
      name |-> cells[2],
      chapter |-> ChapterOf(cells[3]),
      dependencies |-> Dependencies(Split(cells[4], ","), id),
      taxonomy |-> normalizeTaxonomy(cells[5]),
      bloomLevel |-> normalizeBloom(cells[6])]

\* Variant: each record put in front of the records found so far
RECURSIVE parseConceptRowsUnshift(_)
parseConceptRowsUnshift(lines) ==
  IF lines = <<>> THEN <<>>
  ELSE LET cells == Cells(Head(lines))
       IN parseConceptRowsUnshift(Tail(lines))
          \o (IF IsDataRow(cells) THEN <<ConceptOfRow(cells)>> ELSE <<>>)

\* for (const line of lines) { ... concepts.push(...) }
RECURSIVE parseConceptRows(_)
parseConceptRows(lines) ==
  IF lines = <<>> THEN <<>>
  ELSE LET cells == Cells(Head(lines))
       IN (IF IsDataRow(cells) THEN <<ConceptOfRow(cells)>> ELSE <<>>)
          \o parseConceptRows(Tail(lines))

parseConceptTable(raw) ==
  parseConceptRows(SelectSeq(raw, LAMBDA l : includes(l, <<"|">>)))

\* ------------------------------------------------------------------------
\* Course description (course-description step)
\*
\* Of the generated document the model keeps the title line (if the
\* "## Course Title" section is there) and the lines of the
\* "## Topics Covered" section (if it is there); a line is a bullet with a
\* topic text, or something else.
\* ------------------------------------------------------------------------
BulletLine(t) == [bullet |-> TRUE, text |-> t]
PlainLine == [bullet |-> FALSE, text |-> <<>>]

RECURSIVE BulletTopics(_)
BulletTopics(lines) ==
  IF lines = <<>> THEN <<>>
  ELSE (IF Head(lines).bullet THEN <<Trim(Head(lines).text)>> ELSE <<>>)
       \o BulletTopics(Tail(lines))

\* while (topics.length < chapters) topics.push(`Chapter ${topics.length + 1}`)
RECURSIVE PadTopics(_, _)
PadTopics(topics, chapters) ==
  IF ~IsNaN(chapters) /\ Len(topics) < chapters[1]
  THEN PadTopics(Append(topics, ChapterTitle(Len(topics) + 1)), chapters)
  ELSE topics

parseCourseDescription(raw, topic, chapters) ==
  LET listed == IF IsDefined(raw.topicsSection) THEN BulletTopics(raw.topicsSection[1]) ELSE <<>>
  IN [title |-> IF IsDefined(raw.titleLine) THEN Trim(raw.titleLine[1]) ELSE topic,
      topics |-> PadTopics(listed, chapters)]


\* ------------------------------------------------------------------------
\* State
\* ------------------------------------------------------------------------
VARIABLES
  env,        \* process.env: whether ANTHROPIC_API_KEY is set
  opts,       \* the flag values commander hands to the action, as text
  config,     \* the TextbookConfig built by the action (optional)
  exitCode,   \* the exit code of the process (optional: still running)
  stderr,     \* the lines printed by console.error
  pc,         \* position of runPipeline
  i,          \* loop index of runPipeline (0-based)
  ctx,        \* the PipelineContext: three optional slots
  promise,    \* per step, the state of the promise returned by step.fn
  invoked,    \* the display names of the steps invoked, in order
  spinner,    \* the spinner.succeed / spinner.fail lines
  rejection,  \* the error runPipeline rejected with (optional)
  stage,      \* the running step: index, phase and error
  calls,      \* the generation calls issued by the current await
  join,       \* the Promise.all that joins them
  tasks,      \* the write tasks of the current Promise.all
  batches,    \* the write batches still to start
  files,      \* the output location: file -> the writer of its content
  slotWrites, \* every assignment to a Context slot: slot and step
  input,      \* arguments of the function under test
  output,     \* its result (optional)
  returned    \* how its successive calls ended, when it is called repeatedly

vars == <<env, opts, config, exitCode, stderr, pc, i, ctx, promise, invoked,
          spinner, rejection, stage, calls, join, tasks, batches, files,
          slotWrites, input, output, returned>>

cliVars == <<env, opts, config, exitCode, stderr>>
pipeVars == <<pc, i, ctx, promise, invoked, spinner, rejection, slotWrites>>
stageVars == <<stage, tasks, batches, files>>
genVars == <<calls, join>>
fnVars == <<input, output, returned>>

\* ------------------------------------------------------------------------
\* The generation service: generate and generateParallel
\* ------------------------------------------------------------------------
IdleJoin == [status |-> "idle", values |-> <<>>, order |-> <<>>, reason |-> <<>>]

\* prompts.map(p => generate(p.prompt, ...)): one call per prompt, all
\* issued before the first one can complete
IssueCalls(prompts) ==
  [j \in 1..Len(prompts) |-> [prompt |-> prompts[j], status |-> "pending", text |-> Undefined]]

\* Promise.all over n promises: fulfilled at once when n = 0
PromiseAll(n) ==
  [status |-> IF n = 0 THEN "fulfilled" ELSE "pending",
   values |-> [j \in 1..n |-> Undefined],
   order |-> <<>>,
   reason |-> <<>>]

\* Variant: the values are collected in the order of completion
ResultPositionArrival(j, order) == Len(order) + 1

\* The position at which Promise.all stores the value of its j-th promise
ResultPosition(j, order) == j

\* Variant: the join is over as soon as one of its promises has a value
JoinFulfilFirst(jn, j, text) ==
  LET at == ResultPosition(j, jn.order)
      values == [jn.values EXCEPT ![at] = Some(text)]
      order == Append(jn.order, j)
  IN [jn EXCEPT !.values = values, !.order = order, !.status = "fulfilled"]

\* Promise.all: fulfilled when the last of its promises is
JoinFulfil(jn, j, text) ==
  LET at == ResultPosition(j, jn.order)
      values == [jn.values EXCEPT ![at] = Some(text)]
      order == Append(jn.order, j)
  IN [jn EXCEPT !.values = values,
                !.order = order,
                !.status = IF Len(order) = Len(jn.values) THEN "fulfilled" ELSE "pending"]

JoinReject(jn, error) == [jn EXCEPT !.status = "rejected", !.reason = error]

\* A settled Promise.all stays as it is, whatever its promises do later
JoinSettle(jn, j, ok, text, error) ==
  IF jn.status # "pending" THEN jn
  ELSE IF ok THEN JoinFulfil(jn, j, text)
  ELSE JoinReject(jn, error)

CallSettle(cs, j, ok, text) ==
  [cs EXCEPT ![j].status = IF ok THEN "fulfilled" ELSE "rejected",
             ![j].text = IF ok THEN Some(text) ELSE Undefined]

\* return results
Results(jn) == [j \in 1..Len(jn.values) |-> jn.values[j][1]]

ApiError == [message |-> <<"API request failed">>]
FsError == [message |-> <<"EACCES: permission denied">>]
GuardError == [message |-> <<"Chapter structure must be generated before chapter content.">>]


\* ------------------------------------------------------------------------
\* The steps
\* ------------------------------------------------------------------------
\* Variant: two entries of the list exchanged
stepsReordered ==
  << [name |-> "Course Description", fn |-> "courseDescription"],
     [name |-> "Learning Graph", fn |-> "learningGraph"],
     [name |-> "Chapter Structure", fn |-> "chapterStructure"],
     [name |-> "Chapter Content", fn |-> "chapterContent"],
     [name |-> "MicroSims", fn |-> "microsims"],
     [name |-> "FAQ", fn |-> "faq"],
     [name |-> "Glossary", fn |-> "glossary"],
     [name |-> "Quizzes", fn |-> "quizzes"],
     [name |-> "References", fn |-> "references"],
     [name |-> "MkDocs Config", fn |-> "mkdocsConfig"],
     [name |-> "Metrics", fn |-> "metrics"],
     [name |-> "README", fn |-> "readme"] >>

steps ==
  << [name |-> "Course Description", fn |-> "courseDescription"],
     [name |-> "Learning Graph", fn |-> "learningGraph"],
     [name |-> "Chapter Structure", fn |-> "chapterStructure"],
     [name |-> "Chapter Content", fn |-> "chapterContent"],
     [name |-> "MicroSims", fn |-> "microsims"],
     [name |-> "Glossary", fn |-> "glossary"],
     [name |-> "FAQ", fn |-> "faq"],
     [name |-> "Quizzes", fn |-> "quizzes"],
     [name |-> "References", fn |-> "references"],
     [name |-> "MkDocs Config", fn |-> "mkdocsConfig"],
     [name |-> "Metrics", fn |-> "metrics"],
     [name |-> "README", fn |-> "readme"] >>

NumSteps == Len(steps)

\* ctx.chapters ?? [], ctx.concepts ?? [], ctx.courseDescription?.topics ?? []
ChaptersOrEmpty(cx) == IF IsDefined(cx.chapters) THEN cx.chapters[1] ELSE <<>>
ConceptsOrEmpty(cx) == IF IsDefined(cx.concepts) THEN cx.concepts[1] ELSE <<>>
TopicsOrEmpty(cx) ==
  IF IsDefined(cx.courseDescription) THEN cx.courseDescription[1].topics ELSE <<>>

\* Array.from({ length: n }): no element when n is NaN or negative
ArrayLength(n) == IF IsNaN(n) \/ n[1] < 0 THEN 0 ELSE n[1]

\* chapterConceptMap of generateChapterStructure: per owning chapter, the
\* entries `${c.id}. ${c.name}` in the order of the concept list
ConceptEntry(c) == NumberText(c.id) \o <<".", " ">> \o c.name

chapterConceptMap(concepts) ==
  [n \in {concepts[k].chapter : k \in 1..Len(concepts)} |->
     LET own == SelectSeq(concepts, LAMBDA c : c.chapter = n)
     IN [k \in 1..Len(own) |-> ConceptEntry(own[k])]]

\* chapterList of generateQuizzes
QuizChapterList(cx, cfg) ==
  LET chapters == ChaptersOrEmpty(cx)
  IN IF Len(chapters) > 0
     THEN [k \in 1..Len(chapters) |-> chapters[k].number]
     ELSE [k \in 1..ArrayLength(cfg.chapters) |-> k]

\* selectSimTopics returns selected.slice(0, count) after padding the
\* selection to count entries
SimTopicCount(cfg) == ArrayLength(cfg.microsims)

Prompt(fn, item) == [fn |-> fn, item |-> item]

\* Files of the output location
File(dir, name, num) == [dir |-> dir, name |-> name, num |-> num]
Task(id, fs) == [id |-> id, files |-> fs]

\* The MkDocs Config step (steps/mkdocs-config.ts): it issues no generation
\* call, assigns no slot of the Context and writes the site configuration
mkdocsConfigPrompts == <<>>
mkdocsConfigBatches == << {Task(1, <<File("", "mkdocs.yml", 0)>>)} >>
mkdocsConfigContext(cx) == cx

\* The generation calls a step issues when it is invoked.  The file reads
\* of the Metrics and README steps come first; they are caught inside the
\* step and never make it fail.
Prompts(fn, cx, cfg) ==
  CASE fn = "chapterContent" ->
         LET chapters == ChaptersOrEmpty(cx)
         IN [k \in 1..Len(chapters) |-> Prompt(fn, chapters[k].number)]
    [] fn = "microsims" -> [k \in 1..SimTopicCount(cfg) |-> Prompt(fn, k)]
    [] fn = "quizzes" ->
         LET chapterList == QuizChapterList(cx, cfg)
         IN [k \in 1..Len(chapterList) |-> Prompt(fn, chapterList[k])]
    [] fn = "mkdocsConfig" -> mkdocsConfigPrompts
    [] fn = "metrics" -> <<>>
    [] OTHER -> <<Prompt(fn, 0)>>

\* if (chapters.length === 0) throw new Error(...)
GuardFails(fn, cx) == fn = "chapterContent" /\ Len(ChaptersOrEmpty(cx)) = 0

\* Variant: the glossary step stores its own view of the concept list
ContextAfterLeaky(fn, cx, cfg, results) ==
  CASE fn = "courseDescription" ->
         [cx EXCEPT !.courseDescription =
            Some(parseCourseDescription(results[1].body, cfg.topic, cfg.chapters))]
    [] fn = "learningGraph" ->
         [cx EXCEPT !.concepts = Some(parseConceptTable(results[1].body))]
    [] fn = "chapterStructure" ->
         [cx EXCEPT !.chapters =
            Some(parseChapterOutlines(results[1].body, cfg.chapters, TopicsOrEmpty(cx),
                                      chapterConceptMap(ConceptsOrEmpty(cx))))]
    [] fn = "glossary" -> [cx EXCEPT !.concepts = Some(<<>>)]
    [] fn = "mkdocsConfig" -> mkdocsConfigContext(cx)
    [] OTHER -> cx

\* The assignment a step makes to the Context once its generation joined
ContextAfter(fn, cx, cfg, results) ==
  CASE fn = "courseDescription" ->
         [cx EXCEPT !.courseDescription =
            Some(parseCourseDescription(results[1].body, cfg.topic, cfg.chapters))]
    [] fn = "learningGraph" ->
         [cx EXCEPT !.concepts = Some(parseConceptTable(results[1].body))]
    [] fn = "chapterStructure" ->
         [cx EXCEPT !.chapters =
            Some(parseChapterOutlines(results[1].body, cfg.chapters, TopicsOrEmpty(cx),
                                      chapterConceptMap(ConceptsOrEmpty(cx))))]
    [] fn = "mkdocsConfig" -> mkdocsConfigContext(cx)
    [] OTHER -> cx

\* await mkdir(dir, { recursive: true }) before the writes (generateReadme
\* writes into the output directory itself)
HasMkdir(fn) == fn # "readme"

\* The writes of a step: batches run one after the other, the tasks of a
\* batch run concurrently (Promise.all), the files of a task in sequence
WriteBatches(fn, cx, cfg) ==
  CASE fn = "courseDescription" -> << {Task(1, <<File("docs", "course-description.md", 0)>>)} >>
    [] fn = "learningGraph" ->
         << {Task(1, <<File("docs/learning-graph", "concept-map.md", 0)>>)},
            {Task(1, <<File("docs/learning-graph", "dependency-graph.md", 0)>>)} >>
    [] fn = "chapterStructure" -> << {Task(1, <<File("docs/chapters", "index.md", 0)>>)} >>
    [] fn = "chapterContent" ->
         LET chapters == ChaptersOrEmpty(cx)
         IN << {Task(k, <<File("docs/chapters", "chapter-NN.md", chapters[k].number)>>) :
                  k \in 1..Len(chapters)} >>
    [] fn = "microsims" ->
         << {Task(k, <<File("docs/microsims", "microsim-NN.html", k),
                       File("docs/microsims", "microsim-NN.md", k)>>) :
               k \in 1..SimTopicCount(cfg)},
            {Task(1, <<File("docs/microsims", "index.md", 0)>>)} >>
    [] fn = "glossary" -> << {Task(1, <<File("docs", "glossary.md", 0)>>)} >>
    [] fn = "faq" -> << {Task(1, <<File("docs", "faq.md", 0)>>)} >>
    [] fn = "quizzes" ->
         LET chapterList == QuizChapterList(cx, cfg)
         IN << {Task(k, <<File("docs/quizzes", "quiz-NN.md", chapterList[k])>>) :
                  k \in 1..Len(chapterList)} >>
    [] fn = "references" -> << {Task(1, <<File("docs", "references.md", 0)>>)} >>
    [] fn = "mkdocsConfig" -> mkdocsConfigBatches
    [] fn = "metrics" -> << {Task(1, <<File("docs/learning-graph", "book-metrics.md", 0)>>)} >>
    [] fn = "readme" -> << {Task(1, <<File("", "README.md", 0)>>)} >>

\* Promise.all over an empty list is fulfilled at once: empty batches are
\* passed over
RECURSIVE SkipEmpty(_)
SkipEmpty(bs) == IF bs # <<>> /\ Head(bs) = {} THEN SkipEmpty(Tail(bs)) ELSE bs


\* ------------------------------------------------------------------------
\* Inputs of a run
\* ------------------------------------------------------------------------
ChapterFlags == {ToText(n) : n \in 0..MaxChapters} \cup {<<"a", "b", "c">>, <<"1", "x">>}
SimFlags == {ToText(n) : n \in 0..MaxSims} \cup {<<"m", "a", "n", "y">>}
ConceptFlags == {<<"2">>, <<"l", "o", "t", "s">>}
DeployFlags == {"none", "netlify"}
DeployTargets == {"github-pages", "none"}
Topic == <<"W">>

\* What the generation service may answer to the three structured prompts
RawDescriptions ==
  { [titleLine |-> Some(<<"T">>), topicsSection |-> Some(<<BulletLine(<<"A">>), PlainLine>>)],
    [titleLine |-> Undefined, topicsSection |-> Undefined] }

TableHeader == <<"|", "I", "D", "|", "C", "|", "C", "h", "|", "D", "|", "T", "|", "B", "|">>
TableRow1 == <<"|", "1", "|", "P", "|", "1", "|", ",", "|", "F", "o", "u", "n", "d", "|", "A", "p", "p", "l", "y", "|">>
TableRow2 == <<"|", "2", "|", "Q", "|", "2", "|", "1", "|", "C", "o", "r", "e", "|", "x", "|">>
RawTables == { <<>>, <<TableHeader, TableRow1, TableRow2>> }

Block(n) == <<HeaderLine(n, <<"H">>), SummaryLine(<<"S">>)>>
RawOutlines ==
  { <<>>,
    Block(1) \o <<DelimLine>> \o Block(2),
    Block(1) \o <<DelimLine>> \o Block(1),
    Block(MaxChapters + 1) }

Responses(prompt) ==
  CASE prompt.fn = "courseDescription" -> {[prompt |-> prompt, body |-> b] : b \in RawDescriptions}
    [] prompt.fn = "learningGraph" -> {[prompt |-> prompt, body |-> b] : b \in RawTables}
    [] prompt.fn = "chapterStructure" -> {[prompt |-> prompt, body |-> b] : b \in RawOutlines}
    [] prompt.fn = "test" -> {[prompt |-> prompt, body |-> b] : b \in {<<"x">>, <<"y">>}}
    [] OTHER -> {[prompt |-> prompt, body |-> <<"t", "e", "x", "t">>]}

EmptyContext == [courseDescription |-> Undefined, concepts |-> Undefined, chapters |-> Undefined]
IdleStage == [k |-> 0, fn |-> "", phase |-> "idle", error |-> Undefined]
NoInput == [fn |-> "none"]

PipelineIdle ==
  /\ pc = "notStarted" /\ i = 0 /\ ctx = EmptyContext
  /\ promise = [k \in 1..NumSteps |-> "none"]
  /\ invoked = <<>> /\ spinner = <<>> /\ rejection = Undefined /\ slotWrites = <<>>
  /\ stage = IdleStage /\ tasks = {} /\ batches = <<>> /\ files = {}

Init ==
  /\ env \in [ANTHROPIC_API_KEY : BOOLEAN]
  /\ opts \in [chapters : ChapterFlags, microsims : SimFlags, concepts : ConceptFlags,
               deploy : DeployFlags]
  /\ config = Undefined /\ exitCode = Undefined /\ stderr = <<>>
  /\ PipelineIdle
  /\ calls = <<>> /\ join = IdleJoin
  /\ input = NoInput /\ output = Undefined /\ returned = <<>>

\* ------------------------------------------------------------------------
\* The command line (bin entry point) and runPipeline
\* ------------------------------------------------------------------------
BuildConfig(o) ==
  [topic |-> Topic,
   chapters |-> parseInt(o.chapters),
   microsims |-> parseInt(o.microsims),
   concepts |-> parseInt(o.concepts),
   deploy |-> o.deploy]

\* Variant: the credential check left out
CredentialIgnored(e) == FALSE

\* if (!process.env.ANTHROPIC_API_KEY) ... process.exit(1)
CredentialMissing(e) == ~e.ANTHROPIC_API_KEY

\* .action(async (topic, opts) => ...) up to the call of runPipeline, and
\* runPipeline up to its loop
CliAction ==
  /\ exitCode = Undefined /\ pc = "notStarted" /\ config = Undefined
  /\ config' = Some(BuildConfig(opts))
  /\ IF CredentialMissing(env)
     THEN /\ stderr' = Append(stderr, <<"Error: ANTHROPIC_API_KEY environment variable is required.">>)
          /\ exitCode' = Some(1)
          /\ pc' = pc
     ELSE /\ pc' = "loop"
          /\ UNCHANGED <<stderr, exitCode>>
  /\ UNCHANGED <<env, opts, i, ctx, promise, invoked, spinner, rejection, slotWrites>>
  /\ UNCHANGED <<stageVars, genVars, fnVars>>

Running == exitCode = Undefined

WrittenSlots(cx, cx2) ==
  (IF cx2.courseDescription # cx.courseDescription THEN <<"courseDescription">> ELSE <<>>)
  \o (IF cx2.concepts # cx.concepts THEN <<"concepts">> ELSE <<>>)
  \o (IF cx2.chapters # cx.chapters THEN <<"chapters">> ELSE <<>>)

\* Variant: the step returns without awaiting the writes it started
StartBatchesUnawaited(k, bs) ==
  LET rest == SkipEmpty(bs)
  IN /\ stage' = [stage EXCEPT !.k = k, !.fn = steps[k].fn, !.phase = "resolved"]
     /\ promise' = [promise EXCEPT ![k] = "fulfilled"]
     /\ tasks' = IF rest = <<>> THEN {} ELSE Head(rest)
     /\ batches' = IF rest = <<>> THEN <<>> ELSE Tail(rest)

\* Start the write batches bs of step k, or fulfil its promise when none is left
StartBatches(k, bs) ==
  LET rest == SkipEmpty(bs)
  IN IF rest = <<>>
     THEN /\ stage' = [stage EXCEPT !.k = k, !.fn = steps[k].fn, !.phase = "resolved"]
          /\ promise' = [promise EXCEPT ![k] = "fulfilled"]
          /\ tasks' = {} /\ batches' = <<>>
     ELSE /\ stage' = [stage EXCEPT !.k = k, !.fn = steps[k].fn, !.phase = "write"]
          /\ promise' = [promise EXCEPT ![k] = "pending"]
          /\ tasks' = Head(rest) /\ batches' = Tail(rest)

\* The step's code after its generation joined: the Context assignment, then
\* await mkdir (or the first write)
AfterGenerate(k, results) ==
  LET fn == steps[k].fn
      cx == ContextAfter(fn, ctx, config[1], results)
      slots == WrittenSlots(ctx, cx)
  IN /\ ctx' = cx
     /\ slotWrites' = slotWrites \o [s \in 1..Len(slots) |-> [slot |-> slots[s], step |-> steps[k].name]]
     /\ IF HasMkdir(fn)
        THEN /\ stage' = [k |-> k, fn |-> fn, phase |-> "mkdir", error |-> Undefined]
             /\ promise' = [promise EXCEPT ![k] = "pending"]
             /\ tasks' = {}
             /\ batches' = WriteBatches(fn, cx, config[1])
        ELSE StartBatches(k, WriteBatches(fn, cx, config[1]))

RejectStage(k, error) ==
  /\ stage' = [k |-> k, fn |-> steps[k].fn, phase |-> "rejected", error |-> Some(error)]
  /\ promise' = [promise EXCEPT ![k] = "rejected"]

\* for (...) { const step = steps[i]; ... await step.fn(ctx)
StepInvoke ==
  /\ Running /\ pc = "loop" /\ i < NumSteps
  /\ LET k == i + 1
         fn == steps[k].fn
         ps == Prompts(fn, ctx, config[1])
     IN /\ invoked' = Append(invoked, steps[k].name)
        /\ IF GuardFails(fn, ctx)
           THEN /\ RejectStage(k, GuardError)
                /\ UNCHANGED <<ctx, slotWrites, tasks, batches, calls, join>>
           ELSE IF ps # <<>>
           THEN /\ calls' = IssueCalls(ps)
                /\ join' = PromiseAll(Len(ps))
                /\ stage' = [k |-> k, fn |-> fn, phase |-> "gen", error |-> Undefined]
                /\ promise' = [promise EXCEPT ![k] = "pending"]
                /\ UNCHANGED <<ctx, slotWrites, tasks, batches>>
           ELSE /\ calls' = <<>>
                /\ join' = IF fn \in {"mkdocsConfig", "metrics"} THEN join ELSE PromiseAll(0)
                /\ AfterGenerate(k, <<>>)
  /\ pc' = "await"
  /\ UNCHANGED <<i, spinner, rejection, files>>
  /\ UNCHANGED <<cliVars, fnVars>>

\* A generation call of the running step settles: with a text, or with an
\* error of the service
GenerateSettle(j, ok, text) ==
  /\ Running /\ pc = "await" /\ stage.phase = "gen"
  /\ j \in 1..Len(calls) /\ calls[j].status = "pending"
  /\ text \in Responses(calls[j].prompt)
  /\ LET jn == JoinSettle(join, j, ok, text, ApiError)
     IN /\ calls' = CallSettle(calls, j, ok, text)
        /\ join' = jn
        /\ CASE jn.status = "rejected" ->
                  /\ RejectStage(stage.k, jn.reason)
                  /\ UNCHANGED <<ctx, slotWrites, tasks, batches>>
             [] jn.status = "fulfilled" -> AfterGenerate(stage.k, Results(jn))
             [] OTHER -> UNCHANGED <<ctx, slotWrites, stage, promise, tasks, batches>>
  /\ UNCHANGED <<pc, i, invoked, spinner, rejection, files>>
  /\ UNCHANGED <<cliVars, fnVars>>

\* await mkdir(dir, { recursive: true }) settles
MkdirSettle(ok) ==
  /\ Running /\ pc = "await" /\ stage.phase = "mkdir"
  /\ IF ok
     THEN StartBatches(stage.k, batches)
     ELSE /\ RejectStage(stage.k, FsError)
          /\ UNCHANGED <<tasks, batches>>
  /\ UNCHANGED <<pc, i, ctx, invoked, spinner, rejection, slotWrites, files>>
  /\ UNCHANGED <<cliVars, genVars, fnVars>>

\* What a writeFile call puts into its file
Text == [kind |-> "text", rows |-> <<>>]
Placeholder == [kind |-> "placeholder", rows |-> <<>>]

\* results[i]: undefined where the array has no value
ResultAt(jn, k) == IF k \in 1..Len(jn.values) THEN jn.values[k] ELSE Undefined

\* The extension of the file names the steps write
Extension(name) ==
  CASE name = "microsim-NN.html" -> ".html"
    [] name = "mkdocs.yml" -> ".yml"
    [] OTHER -> ".md"

\* countFilesInDir(dir): the entries of dir whose name ends with '.md'
countFilesInDir(fs, dir) ==
  Cardinality({e.file : e \in {x \in fs : x.file.dir = dir /\ Extension(x.file.name) = ".md"}})

\* a || b on numbers: b when a is 0 or NaN
OrNumber(a, b) == IF IsNaN(a) \/ a = Num(0) THEN b ELSE a

\* ctx.chapters?.length ?? ctx.courseDescription?.topics.length ?? ctx.config.chapters
chapterCount(cx, cfg) ==
  IF IsDefined(cx.chapters) THEN Num(Len(cx.chapters[1]))
  ELSE IF IsDefined(cx.courseDescription) THEN Num(Len(cx.courseDescription[1].topics))
  ELSE cfg.chapters

\* The two rows of tableRows in generateMetrics that are counted from the
\* files on disk: ['Chapters', chapterFiles || chapterCount] and
\* ['MicroSims', microsimFiles || ctx.config.microsims]
tableRows(fs, cx, cfg) ==
  << [label |-> "Chapters",
      value |-> OrNumber(Num(countFilesInDir(fs, "docs/chapters")), chapterCount(cx, cfg))],
     [label |-> "MicroSims",
      value |-> OrNumber(Num(countFilesInDir(fs, "docs/microsims")), cfg.microsims)] >>

\* What a step puts into the file of task t: the placeholder of
\*   const content = results[i] ?? `# Chapter ...\n\nContent generation failed.`
\* in generateChapterContent, the table of generateMetrics (no step writes
\* between its reads of the directories and its own write), a text otherwise
FileContent(fn, jn, t, fs, cx, cfg) ==
  CASE fn = "chapterContent" /\ ~IsDefined(ResultAt(jn, t.id)) -> Placeholder
    [] fn = "metrics" -> [kind |-> "metrics", rows |-> tableRows(fs, cx, cfg)]
    [] OTHER -> Text

WriteFile(fs, f, writer, content) ==
  {e \in fs : e.file # f} \cup {[file |-> f, by |-> writer, content |-> content]}

\* The writeFile a task of the running step awaits settles
WriteSettle(t, ok) ==
  /\ Running /\ pc = "await" /\ stage.phase = "write"
  /\ t \in tasks
  /\ IF ok
     THEN LET rest == Tail(t.files)
              left == (tasks \ {t}) \cup (IF rest = <<>> THEN {} ELSE {Task(t.id, rest)})
          IN /\ files' = WriteFile(files, Head(t.files),
                                    [step |-> steps[stage.k].name, task |-> t.id],
                                    FileContent(stage.fn, join, t, files, ctx, config[1]))
             /\ IF left = {}
                THEN StartBatches(stage.k, batches)
                ELSE /\ tasks' = left
                     /\ UNCHANGED <<stage, promise, batches>>
     ELSE /\ RejectStage(stage.k, FsError)
          /\ tasks' = tasks \ {t}
          /\ UNCHANGED <<batches, files>>
  /\ UNCHANGED <<pc, i, ctx, invoked, spinner, rejection, slotWrites>>
  /\ UNCHANGED <<cliVars, genVars, fnVars>>

\* Variant: the loop goes on without awaiting the step
AwaitedLoose(st, phase) ==
  IF phase = "resolved" THEN st.phase \in {"gen", "mkdir", "write", "resolved"}
  ELSE st.phase = phase

\* The await of runPipeline is over once the promise of the step settled
Awaited(st, phase) == st.phase = phase

\* Variant: the loop index is not advanced, the step runs again
NextIndexRetry(n) == n

\* i++ of the for loop
NextIndex(n) == n + 1

\* spinner.succeed(...) and the loop increment; after the last step the
\* "Done" summary
StepSucceed ==
  /\ Running /\ pc = "await" /\ Awaited(stage, "resolved")
  /\ spinner' = Append(spinner, [kind |-> "succeed", index |-> i + 1,
                                 name |-> steps[i + 1].name, msg |-> <<>>])
  /\ i' = NextIndex(i)
  /\ pc' = IF NextIndex(i) < NumSteps THEN "loop" ELSE "allDone"
  /\ stage' = IdleStage
  /\ UNCHANGED <<ctx, promise, invoked, rejection, slotWrites, tasks, batches, files>>
  /\ UNCHANGED <<cliVars, genVars, fnVars>>

\* Variant: the error is wrapped with the display name of the step
ThrownWrapped(error, step) == [message |-> <<step.name, ": ">> \o error.message]

\* throw error
Thrown(error, step) == error

\* Variant: the error is swallowed and the loop goes on with the next step
AfterCatchContinue(n) ==
  [pc |-> IF n + 1 < NumSteps THEN "loop" ELSE "allDone", i |-> n + 1]

\* throw error inside the loop: the loop and runPipeline are left
AfterCatch(n) == [pc |-> "failed", i |-> n]

\* catch (error) { spinner.fail(`... ${step.name}: ${msg}`); throw error; }
StepCatch ==
  /\ Running /\ pc = "await" /\ Awaited(stage, "rejected")
  /\ spinner' = Append(spinner, [kind |-> "fail", index |-> i + 1,
                                 name |-> steps[i + 1].name, msg |-> stage.error[1].message])
  /\ rejection' = Some(Thrown(stage.error[1], steps[i + 1]))
  /\ pc' = AfterCatch(i).pc
  /\ i' = AfterCatch(i).i
  /\ UNCHANGED <<ctx, promise, invoked, slotWrites, stage, tasks, batches, files>>
  /\ UNCHANGED <<cliVars, genVars, fnVars>>

\* catch (error) { console.error(`Pipeline failed: ${msg}`); process.exit(1); }
CliCatch ==
  /\ Running /\ pc = "failed"
  /\ stderr' = Append(stderr, <<"Pipeline failed: ">> \o rejection[1].message)
  /\ exitCode' = Some(1)
  /\ UNCHANGED <<env, opts, config>>
  /\ UNCHANGED <<pipeVars, stageVars, genVars, fnVars>>

\* runPipeline resolved: the action returns and the process ends normally
CliReturn ==
  /\ Running /\ pc = "allDone"
  /\ exitCode' = Some(0)
  /\ UNCHANGED <<env, opts, config, stderr>>
  /\ UNCHANGED <<pipeVars, stageVars, genVars, fnVars>>

Next ==
  \/ CliAction
  \/ StepInvoke
  \/ \E j \in 1..Len(calls), ok \in BOOLEAN :
       \E text \in Responses(calls[j].prompt) : GenerateSettle(j, ok, text)
  \/ \E ok \in BOOLEAN : MkdirSettle(ok)
  \/ \E t \in tasks, ok \in BOOLEAN : WriteSettle(t, ok)
  \/ StepSucceed
  \/ StepCatch
  \/ CliCatch
  \/ CliReturn

Spec == Init /\ [][Next]_vars

\* A run in which every pending call of the generation service and of the
\* file system settles, and every continuation that is ready runs
\* (--concepts and --deploy, which no step of the loop branches on, at their
\* defaults)
InitSettling == Init /\ opts.concepts = <<"2">> /\ opts.deploy = "none"

SpecSettling == InitSettling /\ [][Next]_vars /\ WF_vars(Next)


\* ------------------------------------------------------------------------
\* generateParallel on its own: any list of at most MaxPrompts prompts
\* ------------------------------------------------------------------------
TestPrompts == {Prompt("test", 1), Prompt("test", 2)}
PromptLists == UNION {[1..n -> TestPrompts] : n \in 0..MaxPrompts}

IdleProcess ==
  /\ returned = <<>>
  /\ env = [ANTHROPIC_API_KEY |-> TRUE]
  /\ opts = [chapters |-> <<"1">>, microsims |-> <<"0">>, concepts |-> <<"2">>, deploy |-> "none"]
  /\ config = Undefined /\ exitCode = Undefined /\ stderr = <<>>
  /\ PipelineIdle

InitParallel ==
  /\ IdleProcess
  /\ calls = <<>> /\ join = IdleJoin
  /\ input \in {[fn |-> "generateParallel", prompts |-> ps] : ps \in PromptLists}
  /\ output = Undefined

Outcome(jn) ==
  CASE jn.status = "fulfilled" -> Some([status |-> "fulfilled", value |-> Results(jn)])
    [] jn.status = "rejected" -> Some([status |-> "rejected", value |-> <<>>])
    [] OTHER -> Undefined

\* generateParallel(prompts, options): the calls are issued and joined
generateParallel ==
  /\ input.fn = "generateParallel" /\ join.status = "idle"
  /\ calls' = IssueCalls(input.prompts)
  /\ join' = PromiseAll(Len(input.prompts))
  /\ output' = Outcome(join')
  /\ UNCHANGED <<cliVars, pipeVars, stageVars, input, returned>>

\* One of the calls settles; after a rejection of the join the remaining
\* calls still run to their end
generateSettle(j, ok, text) ==
  /\ input.fn = "generateParallel" /\ join.status # "idle"
  /\ j \in 1..Len(calls) /\ calls[j].status = "pending"
  /\ text \in Responses(calls[j].prompt)
  /\ calls' = CallSettle(calls, j, ok, text)
  /\ join' = JoinSettle(join, j, ok, text, ApiError)
  /\ output' = Outcome(join')
  /\ UNCHANGED <<cliVars, pipeVars, stageVars, input, returned>>

NextParallel ==
  \/ generateParallel
  \/ \E j \in 1..Len(calls), ok \in BOOLEAN :
       \E text \in Responses(calls[j].prompt) : generateSettle(j, ok, text)

SpecParallel == InitParallel /\ [][NextParallel]_vars

\* ------------------------------------------------------------------------
\* How a call of an extractor ends: it returns a list (Some(list)) or it
\* throws.  Neither extractor has a throw statement; what could throw is a
\* read of a property of null or undefined (a capture group of a failed
\* match, an iteration over a missing map entry, a method of a missing
\* cell), so each such read is listed with the test that guards it.
\* ------------------------------------------------------------------------
TypeError == [message |-> <<"Cannot read properties of null">>]
Throws(e) == <<e, "thrown">>
Returned(o) == Len(o) = 1

\* m[1], m[2] of a match result
ReadThrows(m) == ~IsDefined(m)

\* Variant: the test of headerMatch left out
BlockThrowsUnguarded(block, conceptMap) ==
  ReadThrows(FirstOfKind(block, "header"))

\* The body of the loop over the blocks
BlockThrows(block, conceptMap) ==
  LET headerMatch == FirstOfKind(block, "header")
      summaryMatch == FirstOfKind(block, "summary")
      conceptsMatch == FirstOfKind(block, "concepts")
  IN IF ~IsDefined(headerMatch) THEN FALSE                      \* continue
     ELSE \/ ReadThrows(headerMatch)                             \* headerMatch[1], [2]
          \/ IsDefined(summaryMatch) /\ ReadThrows(summaryMatch)    \* summaryMatch ? ... : ''
          \/ IsDefined(conceptsMatch) /\ ReadThrows(conceptsMatch)  \* if (conceptsMatch)
          \/ /\ HasKey(conceptMap, headerMatch[1].num)           \* ... && conceptMap[number]
             /\ ~HasKey(conceptMap, headerMatch[1].num)          \* for (... of conceptMap[number])

\* The gap-filling loop reads (conceptMap[n] ?? []) and courseTopics[n - 1]
\* ?? ..., neither of which can throw.
OutlinesThrow(raw, conceptMap) ==
  LET blocks == SplitBlocks(raw)
  IN \E b \in 1..Len(blocks) : BlockThrows(blocks[b], conceptMap)

\* cells[k]: undefined beyond the end of the array
Cell(cells, k) == IF k + 1 <= Len(cells) THEN Some(cells[k + 1]) ELSE Undefined
\* v ?? ''
OrEmptyText(v) == IF IsDefined(v) THEN v ELSE Some(<<>>)

\* depsStr.split, raw.toLowerCase() in normalizeTaxonomy and normalizeBloom
RowThrows(cells) ==
  IF ~IsDataRow(cells) THEN FALSE
  ELSE \E k \in {3, 4, 5} : ~IsDefined(OrEmptyText(Cell(cells, k)))

ConceptTableThrows(raw) ==
  \E l \in 1..Len(raw) : includes(raw[l], <<"|">>) /\ RowThrows(Cells(raw[l]))

\* ------------------------------------------------------------------------
\* parseChapterOutlines on its own: any text of at most MaxLines lines
\* ------------------------------------------------------------------------
\* "4, 5, abc, 6.Q,0,-1,7 b" and "x"
IdsExample ==
  <<"4", ",", " ", "5", ",", " ", "a", "b", "c", ",", " ", "6", ".", "Q", ",", "0", ",",
    "-", "1", ",", "7", " ", "b">>
IdsNone == <<"x">>
IdsTexts == {IdsExample, IdsNone}
OutlineLines ==
  {DelimLine, OtherLine, SummaryLine(<<"S">>)}
  \cup {HeaderLine(n, <<"H">>) : n \in 1..MaxChapterNum}
  \cup {ConceptIdsLine(t) : t \in IdsTexts}
OutlineTexts == UNION {[1..n -> OutlineLines] : n \in 0..MaxLines}
TopicLists == { <<>>, << <<"A">>, <<"B">> >> }
ConceptMaps == { <<>>, (1 :> << <<"7", ".", " ", "P">> >>) @@ (2 :> << <<"8", ".", " ", "Q">>, <<"9", ".", " ", "R">> >>) }

InitOutlines ==
  /\ IdleProcess
  /\ calls = <<>> /\ join = IdleJoin
  /\ \E r \in OutlineTexts, n \in 0..MaxChapterNum, t \in TopicLists, m \in ConceptMaps :
       input = [fn |-> "parseChapterOutlines", raw |-> r, chapterCount |-> Num(n),
                courseTopics |-> t, conceptMap |-> m]
  /\ output = Undefined

ApplyChapterOutlines ==
  /\ input.fn = "parseChapterOutlines" /\ output = Undefined
  /\ output' = IF OutlinesThrow(input.raw, input.conceptMap)
               THEN Throws(TypeError)
               ELSE Some(parseChapterOutlines(input.raw, input.chapterCount,
                                              input.courseTopics, input.conceptMap))
  /\ UNCHANGED <<cliVars, pipeVars, stageVars, genVars, input, returned>>

NextOutlines == ApplyChapterOutlines

SpecOutlines == InitOutlines /\ [][NextOutlines]_vars

\* ------------------------------------------------------------------------
\* parseConceptTable on its own: any text of at most MaxRows lines
\* ------------------------------------------------------------------------
RECURSIVE Row(_)
Row(cells) ==
  IF cells = <<>> THEN <<"|">>
  ELSE <<"|", " ">> \o Head(cells) \o <<" ">> \o Row(Tail(cells))

Dashes == <<"-", "-", "-">>
TableSeparator == Row(<<Dashes, Dashes, Dashes, Dashes, Dashes, Dashes>>)
\* a concept without prerequisites, written with an empty cell as the
\* prompt asks
RowNoDeps == Row(<< <<"1">>, <<"P">>, <<"1">>, <<>>, <<"F">>, <<"x">> >>)
\* a forward reference and a self-reference
RowForward == Row(<< <<"1">>, <<"A">>, <<"1">>, <<"2", ",", " ", "1">>, <<"C">>, <<"x">> >>)
RowNegative == Row(<< <<"-", "1">>, <<"N">>, <<"1">>, <<"0">>, <<"C">>, <<"x">> >>)
RowShort == Row(<< <<"3">>, <<"Z">> >>)
RowNoChapter == Row(<< <<"3">>, <<"R">>, <<"x">>, <<"1", ",", "2">>, <<"a", "d", "v">>, <<"y">> >>)
TextLine == <<"t">>

TableLines ==
  { TableHeader, TableSeparator, TableRow2, RowNoDeps, RowForward, RowNegative, RowShort,
    RowNoChapter, TextLine }
TableTexts == UNION {[1..n -> TableLines] : n \in 0..MaxRows}

InitConcepts ==
  /\ IdleProcess
  /\ calls = <<>> /\ join = IdleJoin
  /\ \E r \in TableTexts : input = [fn |-> "parseConceptTable", raw |-> r]
  /\ output = Undefined

ApplyConceptTable ==
  /\ input.fn = "parseConceptTable" /\ output = Undefined
  /\ output' = IF ConceptTableThrows(input.raw)
               THEN Throws(TypeError)
               ELSE Some(parseConceptTable(input.raw))
  /\ UNCHANGED <<cliVars, pipeVars, stageVars, genVars, input, returned>>

NextConcepts == ApplyConceptTable

SpecConcepts == InitConcepts /\ [][NextConcepts]_vars

\* ------------------------------------------------------------------------
\* normalizeTaxonomy and normalizeBloom on their own: any cell made of at
\* most MaxTokens of the words below
\* ------------------------------------------------------------------------
CellWords ==
  { <<"f", "o", "u", "n", "d">>, <<"F", "O", "U", "N", "D">>,
    <<"F", "o", "u", "n", "d", "a", "t", "i", "o", "n", "a", "l">>,
    <<"a", "d", "v">>, <<"C", "o", "r", "e">>, <<" ">>, <<"x">>,
    <<"R", "e", "m", "e", "m", "b", "e", "r">>, <<"u", "n", "d", "e", "r", "s", "t", "a", "n", "d">>,
    <<"a", "p", "p", "l", "y">>, <<"a", "n", "a", "l", "y", "z", "i", "n", "g">>,
    <<"E", "v", "a", "l", "u", "a", "t", "e">>, <<"c", "r", "e", "a", "t", "e">> }

RECURSIVE Concat(_)
Concat(words) == IF words = <<>> THEN <<>> ELSE Head(words) \o Concat(Tail(words))

CellTexts == {Concat(ws) : ws \in UNION {[1..n -> CellWords] : n \in 0..MaxTokens}}

InitNormalize ==
  /\ IdleProcess
  /\ calls = <<>> /\ join = IdleJoin
  /\ \E f \in {"normalizeTaxonomy", "normalizeBloom"}, c \in CellTexts :
       input = [fn |-> f, raw |-> c]
  /\ output = Undefined

ApplyTaxonomy ==
  /\ input.fn = "normalizeTaxonomy" /\ output = Undefined
  /\ output' = Some(normalizeTaxonomy(input.raw))
  /\ UNCHANGED <<cliVars, pipeVars, stageVars, genVars, input, returned>>

ApplyBloom ==
  /\ input.fn = "normalizeBloom" /\ output = Undefined
  /\ output' = Some(normalizeBloom(input.raw))
  /\ UNCHANGED <<cliVars, pipeVars, stageVars, genVars, input, returned>>

NextNormalize == ApplyTaxonomy \/ ApplyBloom

SpecNormalize == InitNormalize /\ [][NextNormalize]_vars

\* ------------------------------------------------------------------------
\* parseCourseDescription on its own
\* ------------------------------------------------------------------------
TopicLines == {BulletLine(<<"A">>), BulletLine(<<"B">>), PlainLine}
TopicsSections == UNION {[1..n -> TopicLines] : n \in 0..MaxLines}

InitDescription ==
  /\ IdleProcess
  /\ calls = <<>> /\ join = IdleJoin
  /\ \E t \in {Undefined, Some(<<"T">>)},
        ts \in {Undefined} \cup {Some(x) : x \in TopicsSections},
        c \in {NaN} \cup {Num(n) : n \in 0..MaxChapters} :
       input = [fn |-> "parseCourseDescription",
                raw |-> [titleLine |-> t, topicsSection |-> ts],
                topic |-> Topic, chapters |-> c]
  /\ output = Undefined

ApplyCourseDescription ==
  /\ input.fn = "parseCourseDescription" /\ output = Undefined
  /\ output' = Some(parseCourseDescription(input.raw, input.topic, input.chapters))
  /\ UNCHANGED <<cliVars, pipeVars, stageVars, genVars, input, returned>>

NextDescription == ApplyCourseDescription

SpecDescription == InitDescription /\ [][NextDescription]_vars

\* ------------------------------------------------------------------------
\* The two extractors side by side
\* ------------------------------------------------------------------------
InitExtractors == InitOutlines \/ InitConcepts

NextExtractors == ApplyChapterOutlines \/ ApplyConceptTable

SpecExtractors == InitExtractors /\ [][NextExtractors]_vars

\* ------------------------------------------------------------------------
\* An extractor called twice in a row with the same argument objects
\* ------------------------------------------------------------------------
Calls == 2

ExtractorOutcome(in) ==
  IF in.fn = "parseChapterOutlines"
  THEN IF OutlinesThrow(in.raw, in.conceptMap) THEN Throws(TypeError)
       ELSE Some(parseChapterOutlines(in.raw, in.chapterCount, in.courseTopics, in.conceptMap))
  ELSE IF ConceptTableThrows(in.raw) THEN Throws(TypeError)
       ELSE Some(parseConceptTable(in.raw))

\* Variant: the fallback title is taken off the list with courseTopics.shift()
ArgumentsAfterShift(in) ==
  IF in.fn = "parseChapterOutlines" /\ in.courseTopics # <<>>
  THEN [in EXCEPT !.courseTopics = Tail(in.courseTopics)]
  ELSE in

\* The argument objects after a call.  The text and the count are
\* immutable values; courseTopics and conceptMap are only read
\* (courseTopics[n - 1], conceptMap[number], conceptMap[n]); push and sort
\* are applied to the list the call itself creates.
ArgumentsAfter(in) == in

\* (the list and the map arguments non-empty, so that there is something
\* a call could change)
InitTwice ==
  /\ InitExtractors
  /\ input.fn = "parseChapterOutlines" => input.courseTopics # <<>> /\ input.conceptMap # <<>>

CallExtractor ==
  /\ input.fn \in {"parseChapterOutlines", "parseConceptTable"}
  /\ Len(returned) < Calls
  /\ returned' = Append(returned, ExtractorOutcome(input))
  /\ input' = ArgumentsAfter(input)
  /\ UNCHANGED <<cliVars, pipeVars, stageVars, genVars, output>>

NextTwice == CallExtractor

SpecTwice == InitTwice /\ [][NextTwice]_vars


\* ========================================================================
\* Properties
\* ========================================================================
DeclaredOrder ==
  << "Course Description", "Learning Graph", "Chapter Structure", "Chapter Content",
     "MicroSims", "Glossary", "FAQ", "Quizzes", "References", "MkDocs Config",
     "Metrics", "README" >>

Slots == {"courseDescription", "concepts", "chapters"}
Pending == {k \in 1..NumSteps : promise[k] = "pending"}
TimesInvoked(name) == Cardinality({n \in 1..Len(invoked) : invoked[n] = name})
TimesWritten(slot) == Cardinality({n \in 1..Len(slotWrites) : slotWrites[n].slot = slot})
OnDisk == {e.file : e \in files}

\* C1: runPipeline invokes the twelve steps in the declared order, and once
\* the invocation of step k rejected no later step is ever invoked.
C1_FixedOrder ==
  /\ Len(invoked) <= Len(DeclaredOrder)
  /\ \A n \in 1..Len(invoked) : invoked[n] = DeclaredOrder[n]
  /\ \A k \in 1..NumSteps : (promise[k] # "none") <=> (k <= Len(invoked))
  /\ \A k \in 1..NumSteps : promise[k] = "rejected" => Len(invoked) = k

C1_Witness ==
  /\ pc = "failed" /\ Len(invoked) = 5 /\ promise[5] = "rejected"
  /\ exitCode = Some(1)

\* C2: in one run no step is invoked twice; a run that reaches the end has
\* invoked every step exactly once; a step that failed stays failed and
\* nothing is invoked after it.
C2_AtMostOnce ==
  /\ [](/\ \A k \in 1..NumSteps : TimesInvoked(steps[k].name) <= 1
        /\ pc = "allDone" => \A k \in 1..NumSteps :
               TimesInvoked(steps[k].name) = 1 /\ promise[k] = "fulfilled")
  /\ [][\A k \in 1..NumSteps :
          promise[k] = "rejected" => promise'[k] = "rejected" /\ invoked' = invoked]_vars

C2_Witness == pc = "allDone" /\ Len(invoked) = NumSteps /\ exitCode = Some(0)

\* C3: at most one step is running at any time, a step is started only
\* after the promise of the step before it was fulfilled, and the Context
\* changes only in the hands of the single running step.
C3_Sequential ==
  /\ [](/\ Cardinality(Pending) <= 1
        /\ \A k \in 2..NumSteps : promise[k] # "none" => promise[k - 1] = "fulfilled")
  /\ [][ctx' # ctx =>
          \E k \in 1..NumSteps :
            /\ stage'.k = k /\ promise'[k] = "pending"
            /\ \A j \in 1..NumSteps : j # k => promise[j] # "pending" /\ promise'[j] # "pending"]_vars

C3_Witness ==
  /\ stage.phase = "gen" /\ Pending = {stage.k}
  /\ Cardinality({j \in 1..Len(calls) : calls[j].status = "pending"}) >= 2
  /\ IsDefined(ctx.chapters)

\* C4 (as stated): the error runPipeline rejects with, and the line the CLI
\* prints, carry the display name of the failing step.
C4_ErrorNamesStep ==
  pc = "failed" =>
    /\ DeclaredOrder[i + 1] \in Range(rejection[1].message)
    /\ IsDefined(exitCode) => DeclaredOrder[i + 1] \in Range(stderr[Len(stderr)])

\* C4 (amended): when a step fails runPipeline aborts and rejects with the
\* step's error unchanged; the display name of the step appears in the
\* spinner's failure line only; the CLI prints "Pipeline failed: " followed
\* by the error's message and exits with code 1.
C4_Rethrown ==
  /\ IsDefined(rejection) <=> pc = "failed"
  /\ pc = "failed" =>
       /\ promise[i + 1] = "rejected" /\ Len(invoked) = i + 1
       /\ rejection = Some(stage.error[1])
       /\ spinner[Len(spinner)] = [kind |-> "fail", index |-> i + 1,
                                   name |-> DeclaredOrder[i + 1],
                                   msg |-> stage.error[1].message]
       /\ IsDefined(exitCode) =>
            /\ exitCode = Some(1)
            /\ stderr = << <<"Pipeline failed: ">> \o stage.error[1].message >>

C4_Witness == pc = "failed" /\ exitCode = Some(1) /\ i = 3 /\ stage.error = Some(GuardError)

\* C5: generateParallel issues one call per prompt; when all succeed it
\* returns as many results as prompts, result j being the text produced for
\* prompt j whatever the order of completion; when a call fails the
\* aggregate fails.
C5_Positional ==
  input.fn = "generateParallel" =>
    /\ join.status # "idle" =>
         /\ Len(calls) = Len(input.prompts)
         /\ \A j \in 1..Len(calls) : calls[j].prompt = input.prompts[j]
    /\ (IsDefined(output) /\ output[1].status = "fulfilled") =>
         /\ Len(output[1].value) = Len(input.prompts)
         /\ \A j \in 1..Len(input.prompts) :
              /\ calls[j].status = "fulfilled"
              /\ output[1].value[j] = calls[j].text[1]
              /\ output[1].value[j].prompt = input.prompts[j]
    /\ (\E j \in 1..Len(calls) : calls[j].status = "rejected") =>
         IsDefined(output) /\ output[1].status = "rejected"
    /\ (join.status # "idle" /\ \A j \in 1..Len(calls) : calls[j].status = "fulfilled") =>
         IsDefined(output) /\ output[1].status = "fulfilled"

C5_Witness ==
  /\ input.fn = "generateParallel" /\ Len(input.prompts) = 3
  /\ input.prompts[1] # input.prompts[2]
  /\ IsDefined(output) /\ output[1].status = "fulfilled"
  /\ join.order = <<3, 1, 2>>
  /\ output[1].value[1].body # output[1].value[3].body

DesignatedWriter(slot) ==
  CASE slot = "courseDescription" -> "Course Description"
    [] slot = "concepts" -> "Learning Graph"
    [] slot = "chapters" -> "Chapter Structure"

\* C6: the Context starts with its three slots empty; a slot is assigned by
\* its designated step only, at most once in a run and exactly once in a run
\* that reaches the end; once assigned it never changes.
C6_SlotsWrittenOnce ==
  /\ [](/\ invoked = <<>> => ctx = EmptyContext
        /\ \A n \in 1..Len(slotWrites) :
             slotWrites[n].step = DesignatedWriter(slotWrites[n].slot)
        /\ \A slot \in Slots :
             /\ TimesWritten(slot) <= 1
             /\ IsDefined(ctx[slot]) <=> TimesWritten(slot) = 1
        /\ pc = "allDone" => \A slot \in Slots : TimesWritten(slot) = 1)
  /\ [][\A slot \in Slots :
          ctx'[slot] # ctx[slot] =>
            /\ ~IsDefined(ctx[slot])
            /\ invoked'[Len(invoked')] = DesignatedWriter(slot)]_vars

C6_Witness ==
  /\ pc = "allDone" /\ Len(slotWrites) = 3
  /\ Len(ctx.concepts[1]) = 2 /\ Len(ctx.chapters[1]) >= 2

StepFiles(k) ==
  UNION {Range(t.files) : t \in UNION Range(WriteBatches(steps[k].fn, ctx, config[1]))}

\* C7: whenever a step has been started, every earlier step is complete:
\* its promise is fulfilled and all its files are on the output location;
\* from the fourth step on, the three slots of the Context are assigned.
C7_EarlierEffectsComplete ==
  \A k \in 2..NumSteps :
    promise[k] # "none" =>
      /\ \A j \in 1..(k - 1) : promise[j] = "fulfilled" /\ StepFiles(j) \subseteq OnDisk
      /\ k >= 4 => \A slot \in Slots : IsDefined(ctx[slot])

C7_Witness ==
  /\ promise[NumSteps] = "pending"
  /\ File("docs/chapters", "chapter-NN.md", 2) \in OnDisk
  /\ File("docs/quizzes", "quiz-NN.md", 2) \in OnDisk
  /\ File("docs/microsims", "microsim-NN.md", 1) \in OnDisk

\* C8: without ANTHROPIC_API_KEY the action exits at once with code 1 and
\* no step is ever invoked.
C8_NoCredentialNoStep ==
  ~env.ANTHROPIC_API_KEY =>
    /\ invoked = <<>> /\ pc = "notStarted"
    /\ \A k \in 1..NumSteps : promise[k] = "none"
    /\ IsDefined(config) => exitCode = Some(1)
    /\ IsDefined(exitCode) => exitCode = Some(1)

C8_Witness == ~env.ANTHROPIC_API_KEY /\ exitCode = Some(1) /\ Len(stderr) = 1

AllDigits(text) == text # <<>> /\ \A n \in 1..Len(text) : IsDigit(text[n])
InvalidFlag(o) ==
  \/ ~AllDigits(o.chapters) \/ ~AllDigits(o.microsims) \/ ~AllDigits(o.concepts)
  \/ o.deploy \notin DeployTargets

\* C9: with an invalid flag value (a count that is not a number, a
\* deployment target outside {github-pages, none}) no step is invoked and
\* the process does not exit with code 0.
C9_InvalidFlagRejected ==
  InvalidFlag(opts) => invoked = <<>> /\ exitCode # Some(0)

TimesNumbered(out, n) == Cardinality({k \in 1..Len(out) : out[k].number = n})

\* The number of blocks of the text whose first heading is "Chapter n"
TimesClaimed(raw, n) ==
  LET blocks == SplitBlocks(raw)
  IN Cardinality({b \in 1..Len(blocks) :
       /\ \E l \in 1..Len(blocks[b]) : blocks[b][l].kind = "header"
       /\ LET first == CHOOSE l \in 1..Len(blocks[b]) :
                         /\ blocks[b][l].kind = "header"
                         /\ \A m \in 1..(l - 1) : blocks[b][m].kind # "header"
          IN blocks[b][first].num = n})

\* C10 (as stated): the list has exactly one record per chapter number from
\* 1 to N and nothing else.
C10_ExactlyOnePerChapter ==
  (input.fn = "parseChapterOutlines" /\ IsDefined(output)) =>
    /\ Len(output[1]) = input.chapterCount[1]
    /\ \A n \in 1..input.chapterCount[1] : TimesNumbered(output[1], n) = 1

\* C10 (amended): the list has at least one record for every chapter number
\* from 1 to N; a number in 1..N that no block claims has exactly one record,
\* a number claimed by k >= 1 blocks has k records whether or not it lies in
\* 1..N, and no other number has a record.
C10_NoGaps ==
  (input.fn = "parseChapterOutlines" /\ IsDefined(output)) =>
    LET out == output[1]
        N == input.chapterCount[1]
    IN /\ \A n \in 1..N : TimesNumbered(out, n) >= 1
       /\ \A k \in 1..Len(out) : out[k].number \in 0..(MaxChapterNum + MaxChapters)
       /\ \A n \in 0..(MaxChapterNum + MaxChapters) :
            TimesNumbered(out, n) =
              IF TimesClaimed(input.raw, n) > 0 THEN TimesClaimed(input.raw, n)
              ELSE IF n \in 1..N THEN 1 ELSE 0

C10_Witness ==
  /\ input.fn = "parseChapterOutlines" /\ IsDefined(output)
  /\ input.chapterCount = Num(2)
  /\ TimesClaimed(input.raw, 1) = 1 /\ TimesClaimed(input.raw, 2) = 0
  /\ Len(output[1]) = 2 /\ output[1][2].title = ChapterTitle(2)

\* C13: a run of runPipeline in which every invocation settles ends in
\* AllDone or in Failed; AllDone only with all twelve steps fulfilled in
\* order, Failed at the first step that failed, with nothing invoked after
\* it; neither is ever left.
C13_Terminates ==
  /\ [](pc = "allDone" => \A k \in 1..NumSteps : promise[k] = "fulfilled")
  /\ [](pc = "failed" =>
          /\ promise[i + 1] = "rejected" /\ Len(invoked) = i + 1
          /\ \A k \in 1..i : promise[k] = "fulfilled"
          /\ \A k \in (i + 2)..NumSteps : promise[k] = "none")
  /\ [](\A k \in 1..NumSteps :
          promise[k] = "rejected" =>
            pc = "failed" \/ (pc = "await" /\ i = k - 1 /\ Awaited(stage, "rejected")))
  /\ [][(pc = "allDone" \/ pc = "failed") => pc' = pc]_vars
  /\ (pc \in {"loop", "await"}) ~> (pc \in {"allDone", "failed"})

C13_Witness ==
  /\ pc = "failed" /\ i = 7 /\ promise[8] = "rejected" /\ promise[9] = "none"
  /\ exitCode = Some(1)

\* C12: a call of either extractor returns a list, whatever the text: it
\* never ends by throwing.
C12_ExtractorsReturn ==
  (input.fn \in {"parseChapterOutlines", "parseConceptTable"} /\ IsDefined(output)) =>
    /\ Returned(output)
    /\ DOMAIN output[1] = 1..Len(output[1])

\* a text whose only block has no heading, and a text without a table
C12_Witness ==
  /\ IsDefined(output) /\ Returned(output)
  /\ \/ /\ input.fn = "parseChapterOutlines"
        /\ input.raw = <<SummaryLine(<<"S">>), OtherLine>>
        /\ input.chapterCount = Num(1) /\ Len(output[1]) = 1
     \/ /\ input.fn = "parseConceptTable"
        /\ input.raw = <<TextLine, RowShort>> /\ output[1] = <<>>

\* ------------------------------------------------------------------------
\* The outline list of parseChapterOutlines
\* ------------------------------------------------------------------------
OutlinesReturned ==
  input.fn = "parseChapterOutlines" /\ IsDefined(output) /\ Returned(output)

HasHeader(block) == \E l \in 1..Len(block) : block[l].kind = "header"
HasField(block, kind) == \E l \in 1..Len(block) : block[l].kind = kind
FieldText(block, kind) ==
  block[CHOOSE l \in 1..Len(block) :
          /\ block[l].kind = kind
          /\ \A m \in 1..(l - 1) : block[m].kind # kind].text
ClaimedNumber(block) ==
  block[CHOOSE l \in 1..Len(block) :
          /\ block[l].kind = "header"
          /\ \A m \in 1..(l - 1) : block[m].kind # "header"].num

\* The blocks of the text that claim chapter n, and the records of the
\* list that carry number n, both in order
ClaimingBlocks(blocks, n) ==
  SelectSeq(blocks, LAMBDA b : HasHeader(b) /\ ClaimedNumber(b) = n)
RecordsNumbered(out, n) == SelectSeq(out, LAMBDA o : o.number = n)
\* The chapter numbers the blocks of the text claim
ClaimedNumbers(blocks) ==
  {ClaimedNumber(blocks[b]) : b \in {c \in 1..Len(blocks) : HasHeader(blocks[c])}}

\* What the texts of the model say, written out
GenericTitle(n) == <<"C", "h", "a", "p", "t", "e", "r", " ">> \o ToText(n)
GenericSummary(n, title) ==
  <<"C", "h", "a", "p", "t", "e", "r", " ">> \o ToText(n)
    \o <<" ", "c", "o", "v", "e", "r", "s", " ">> \o title \o <<".">>
ExpectedIds(text) == IF text = IdsExample THEN <<4, 5, 6>> ELSE <<>>
EntryIds(conceptMap, n) ==
  IF n \in DOMAIN conceptMap
  THEN [k \in 1..Len(conceptMap[n]) |-> parseInt(conceptMap[n][k])[1]]
  ELSE <<>>

\* C14: a chapter number of 1..N that no block claims gets one synthesized
\* record: its title is the n-th fallback title, or "Chapter n" when the
\* list is shorter, its summary the filler naming that title, its concept
\* identifiers those of the mapping entry for n, or none.
C14_GapsSynthesized ==
  OutlinesReturned =>
    \A n \in (1..input.chapterCount[1]) \ ClaimedNumbers(SplitBlocks(input.raw)) :
        LET title == IF n <= Len(input.courseTopics) THEN input.courseTopics[n]
                     ELSE GenericTitle(n)
        IN RecordsNumbered(output[1], n) =
             << [number |-> n, title |-> title, summary |-> GenericSummary(n, title),
                 concepts |-> EntryIds(input.conceptMap, n)] >>

C14_Witness ==
  /\ OutlinesReturned
  /\ input.chapterCount = Num(3)
  /\ input.raw = <<HeaderLine(1, <<"H">>), DelimLine, HeaderLine(3, <<"H">>)>>
  /\ input.courseTopics = << <<"A">>, <<"B">> >> /\ input.conceptMap = <<>>
  /\ Len(output[1]) = 3
  /\ output[1][2] = [number |-> 2, title |-> <<"B">>,
                     summary |-> GenericSummary(2, <<"B">>), concepts |-> <<>>]

\* C15: chapter numbers never decrease along the list, and the blocks that
\* claim the same number all have their record, in the order of the blocks.
C15_SortedStable ==
  OutlinesReturned =>
    /\ \A k \in 1..(Len(output[1]) - 1) : output[1][k].number <= output[1][k + 1].number
    /\ \A n \in ClaimedNumbers(SplitBlocks(input.raw)) :
         LET blocks == ClaimingBlocks(SplitBlocks(input.raw), n)
             records == RecordsNumbered(output[1], n)
         IN   /\ Len(records) = Len(blocks)
              /\ \A k \in 1..Len(blocks) :
                   /\ (records[k].summary # <<>>) <=> HasField(blocks[k], "summary")
                   /\ (records[k].concepts = ExpectedIds(IdsExample))
                        <=> (/\ HasField(blocks[k], "concepts")
                             /\ FieldText(blocks[k], "concepts") = IdsExample)

C15_Witness ==
  /\ OutlinesReturned
  /\ input.raw = <<HeaderLine(1, <<"H">>), SummaryLine(<<"S">>), DelimLine,
                   HeaderLine(1, <<"H">>)>>
  /\ input.chapterCount = Num(2)
  /\ Len(output[1]) = 3
  /\ output[1][1].summary = <<"S">> /\ output[1][2].summary = <<>>
  /\ output[1][3].number = 2

C17_FallbackToMap ==
  OutlinesReturned =>
    \A n \in ClaimedNumbers(SplitBlocks(input.raw)) :
      LET blocks == ClaimingBlocks(SplitBlocks(input.raw), n)
          records == RecordsNumbered(output[1], n)
      IN \A k \in 1..Len(blocks) :
           LET listed == IF HasField(blocks[k], "concepts")
                         THEN ExpectedIds(FieldText(blocks[k], "concepts"))
                         ELSE <<>>
           IN records[k].concepts =
                IF listed = <<>> THEN EntryIds(input.conceptMap, n) ELSE listed

C17_Witness ==
  /\ OutlinesReturned
  /\ input.raw = <<HeaderLine(2, <<"H">>), DelimLine, HeaderLine(1, <<"H">>),
                   ConceptIdsLine(IdsNone)>>
  /\ input.conceptMap # <<>>
  /\ output[1][1].concepts = <<7>> /\ output[1][2].concepts = <<8, 9>>

\* ------------------------------------------------------------------------
\* The concept list of parseConceptTable
\* ------------------------------------------------------------------------
ConceptsReturned ==
  input.fn = "parseConceptTable" /\ IsDefined(output) /\ Returned(output)

\* The prerequisite edges of a concept list, and what is reached from a set
\* of identifiers in at most n steps along them
DependencyEdges(cs) ==
  UNION {{<<cs[k].id, d>> : d \in Range(cs[k].dependencies)} : k \in 1..Len(cs)}

RECURSIVE ReachedWithin(_, _, _)
ReachedWithin(edges, from, n) ==
  IF n = 0 THEN from
  ELSE ReachedWithin(edges, from \cup {e[2] : e \in {x \in edges : x[1] \in from}}, n - 1)

ReachesItself(cs, id) ==
  LET edges == DependencyEdges(cs)
      direct == {e[2] : e \in {x \in edges : x[1] = id}}
  IN id \in ReachedWithin(edges, direct, Len(cs))

\* C11: the prerequisite relation of the extracted concept list has no
\* cycle: no concept reaches itself by following dependency identifiers
\* through the records.
C11_Acyclic ==
  ConceptsReturned =>
    \A k \in 1..Len(output[1]) : ~ReachesItself(output[1], output[1][k].id)

\* The lines of a text that contain a '|', in order, each as the list of
\* its non-empty cells
TableRows(raw) ==
  LET lines == SelectSeq(raw, LAMBDA l : includes(l, <<"|">>))
  IN [k \in 1..Len(lines) |-> Cells(lines[k])]

FirstCellNumeric(cells) == cells # <<>> /\ ~IsNaN(Number(cells[1]))
FirstCellValue(cells) == Number(cells[1])[1]

\* C18 (as stated): every record's identifier is a non-negative integer,
\* and there are no more records than lines with a numeric first cell.
C18_NonNegativeIds ==
  ConceptsReturned =>
    /\ \A k \in 1..Len(output[1]) : output[1][k].id >= 0
    /\ Len(output[1]) <= Len(SelectSeq(TableRows(input.raw), FirstCellNumeric))

\* C18 (amended): the identifiers of the records are, in order, the values
\* of the first cells of the lines that have a numeric first cell and at
\* least six non-empty cells, whatever the sign of the value; a line whose
\* first cell is not numeric (a header, a separator row) gives no record.
C18_NumericFirstCell ==
  ConceptsReturned =>
    LET rows == SelectSeq(TableRows(input.raw),
                          LAMBDA c : FirstCellNumeric(c) /\ Len(c) >= 6)
    IN /\ Len(output[1]) = Len(rows)
       /\ \A k \in 1..Len(rows) : output[1][k].id = FirstCellValue(rows[k])

C18_Witness ==
  /\ ConceptsReturned
  /\ input.raw = <<TableHeader, TableSeparator, RowNegative>>
  /\ Len(output[1]) = 1 /\ output[1][1].id = -1

\* C19: every line whose first cell is an integer yields a record, however
\* many further non-empty cells it has.
C19_EveryIntegerRowYields ==
  ConceptsReturned =>
    Len(output[1]) = Len(SelectSeq(TableRows(input.raw), FirstCellNumeric))

\* C20: every identifier in a record's dependency list is strictly less
\* than the record's own identifier.
C20_DependenciesBelowId ==
  ConceptsReturned =>
    \A k \in 1..Len(output[1]) :
      \A d \in Range(output[1][k].dependencies) : d < output[1][k].id

\* C21: every entry of a record's dependency list is the identifier of
\* some record of the list other than the record itself.
C21_DependenciesDefined ==
  ConceptsReturned =>
    \A k \in 1..Len(output[1]) :
      \A d \in Range(output[1][k].dependencies) :
        /\ d # output[1][k].id
        /\ \E j \in 1..Len(output[1]) : output[1][j].id = d

\* C22: the list has one record per row with a numeric first cell and six
\* non-empty cells, in the order of the rows in the text: identifier, name
\* and chapter cell of the k-th record are those of the k-th such row,
\* whatever the identifiers (descending, repeated, with gaps).
C22_TextualOrder ==
  ConceptsReturned =>
    LET rows == SelectSeq(TableRows(input.raw),
                          LAMBDA c : FirstCellNumeric(c) /\ Len(c) >= 6)
    IN /\ Len(output[1]) = Len(rows)
       /\ \A k \in 1..Len(rows) :
            /\ NumberText(output[1][k].id) = rows[k][1]
            /\ output[1][k].name = rows[k][2]
            /\ rows[k][3] \in {NumberText(output[1][k].chapter), <<"x">>}

C22_Witness ==
  /\ ConceptsReturned
  /\ input.raw = <<RowNoChapter, TableRow2, RowNoChapter>>
  /\ Len(output[1]) = 3
  /\ output[1][1].id = 3 /\ output[1][2].id = 2 /\ output[1][3].id = 3

\* ------------------------------------------------------------------------
\* The normalized cells
\* ------------------------------------------------------------------------
\* c is the letter w (given in lower case) in either case
SameLetter(c, w) == c = w \/ \E n \in 1..26 : Lower[n] = w /\ Upper[n] = c
\* word (in lower case) occurs in text, letter case ignored
Occurs(word, text) ==
  \E k \in 0..(Len(text) - Len(word)) :
    \A j \in 1..Len(word) : SameLetter(text[k + j], word[j])

\* C23: the taxonomy of a cell is Foundation when the cell contains
\* 'found' in any letter case, otherwise Advanced when it contains 'adv',
\* otherwise Core; it is always one of the three.
C23_TaxonomyClosed ==
  (input.fn = "normalizeTaxonomy" /\ IsDefined(output)) =>
    /\ output[1] \in {"Foundation", "Core", "Advanced"}
    /\ output[1] = IF Occurs(<<"f", "o", "u", "n", "d">>, input.raw) THEN "Foundation"
                   ELSE IF Occurs(<<"a", "d", "v">>, input.raw) THEN "Advanced"
                   ELSE "Core"

C23_Witness ==
  /\ input.fn = "normalizeTaxonomy" /\ IsDefined(output)
  /\ input.raw = <<"a", "d", "v", "F", "O", "U", "N", "D">>
  /\ output[1] = "Foundation"

BloomLabels == <<"Remember", "Understand", "Apply", "Analyze", "Evaluate", "Create">>
BloomStems ==
  << <<"r", "e", "m", "e", "m", "b", "e", "r">>, <<"u", "n", "d", "e", "r", "s", "t", "a", "n", "d">>,
     <<"a", "p", "p", "l", "y">>, <<"a", "n", "a", "l", "y", "z">>,
     <<"e", "v", "a", "l", "u", "a", "t">>, <<"c", "r", "e", "a", "t">> >>

\* The label of the first of the six words that occurs in the text, or the
\* trimmed text when none does
FirstOccurring(words, text) ==
  LET hits == {n \in 1..6 : Occurs(words[n], text)}
  IN IF hits = {} THEN Trim(text)
     ELSE BloomText(BloomLabels[CHOOSE n \in hits : \A m \in hits : n <= m])

\* C24 (as stated): the level of a cell is the first of the six canonical
\* labels that occurs in it, letter case ignored, and the trimmed cell
\* when none of the labels occurs.
C24_FirstLabel ==
  (input.fn = "normalizeBloom" /\ IsDefined(output)) =>
    output[1] = FirstOccurring([n \in 1..6 |-> toLowerCase(BloomText(BloomLabels[n]))],
                               input.raw)

\* C24 (amended): the level of a cell is the label of the first of the six
\* stems remember, understand, apply, analyz, evaluat, creat that occurs
\* in it, letter case ignored, and the trimmed cell when none occurs.
C24_FirstStem ==
  (input.fn = "normalizeBloom" /\ IsDefined(output)) =>
    output[1] = FirstOccurring(BloomStems, input.raw)

C24_Witness ==
  /\ input.fn = "normalizeBloom" /\ IsDefined(output)
  /\ input.raw = <<"a", "n", "a", "l", "y", "z", "i", "n", "g", "u", "n", "d", "e", "r",
                   "s", "t", "a", "n", "d">>
  /\ output[1] = BloomText("Understand")

C26_TopicsMatchChapters ==
  (input.fn = "parseCourseDescription" /\ IsDefined(output) /\ ~IsNaN(input.chapters))
    => Len(output[1].topics) = input.chapters[1]

\* C27: with a chapter count of at least 1, the chapter list of the Context
\* is non-empty once Chapter Structure has completed, and Chapter Content
\* never fails with its guard error.
C27_GuardNeverFails ==
  (IsDefined(config) /\ ~IsNaN(config[1].chapters) /\ config[1].chapters[1] >= 1) =>
    /\ promise[3] = "fulfilled" => Len(ChaptersOrEmpty(ctx)) > 0
    /\ stage.k = 4 => stage.error # Some(GuardError)

C27_Witness ==
  /\ stage.k = 4 /\ stage.phase = "gen"
  /\ IsDefined(config) /\ config[1].chapters = Num(2)
  /\ ctx.chapters =
       Some([n \in 1..2 |-> DefaultOutline(n, TopicsOrEmpty(ctx),
                                            chapterConceptMap(ConceptsOrEmpty(ctx)))])

\* C28: in the write phase of Chapter Content and of Quizzes no two of the
\* concurrently running write tasks target the same file.
C28_OneWriterPerFile ==
  (stage.fn \in {"chapterContent", "quizzes"} /\ stage.phase = "write") =>
    \A t1 \in tasks, t2 \in tasks :
      t1.id # t2.id => \A a \in 1..Len(t1.files), b \in 1..Len(t2.files) :
                         t1.files[a] # t2.files[b]

\* C29: a fan-out step writes only after its generation calls have all
\* joined: when one of them fails the step fails with none of its files
\* written, and no file ever holds the placeholder.
FanOut == {"chapterContent", "microsims", "quizzes"}

WrittenBy(k) == {e \in files : e.by.step = steps[k].name}

C29_WritesAfterJoin ==
  /\ \A e \in files : e.content # Placeholder
  /\ stage.fn \in FanOut =>
       /\ (stage.phase = "rejected" /\ stage.error = Some(ApiError)) => WrittenBy(stage.k) = {}
       /\ WrittenBy(stage.k) # {} =>
            /\ join.status = "fulfilled"
            /\ \A j \in 1..Len(calls) : calls[j].status = "fulfilled"

C29_Witness ==
  /\ stage.fn = "chapterContent" /\ stage.phase = "rejected" /\ stage.error = Some(ApiError)
  /\ Len(calls) = 2
  /\ \E j \in 1..2 : calls[j].status = "fulfilled"
  /\ WrittenBy(stage.k) = {}

\* C30: once the Metrics step has written its report, the 'Chapters' value
\* is the number of chapter files Chapter Content wrote and the 'MicroSims'
\* value is the number of simulations MicroSims wrote, the configured count.
MetricsFile == File("docs/learning-graph", "book-metrics.md", 0)

Named(name) == {f \in OnDisk : f.name = name}

C30_MetricsMatchWritten ==
  \A e \in files :
    e.file = MetricsFile =>
      /\ e.content.rows[1].value = Num(Cardinality(Named("chapter-NN.md")))
      /\ e.content.rows[2].value = Num(Cardinality(Named("microsim-NN.html")))
      /\ e.content.rows[2].value = Num(SimTopicCount(config[1]))

====
